---- MODULE Spec2Model ----
(***************************************************************************)
(* SnipKeep backend: the note routes (src/routes/notes.js, lines 1-251),   *)
(* the label routes (src/routes/tags.js), the validation middlewares and   *)
(* the note utilities, over a document store holding the Note and Tag      *)
(* collections.  One action per route handler; a request is served to      *)
(* completion before the next one starts (specification Spec).             *)
(***************************************************************************)
EXTENDS Integers, Sequences, FiniteSets, TLC

\* ------------------------------------------------------------------ bounds
\* ObjectIds Note.create may allocate in one run.
MaxNotes == 2
\* Largest value the wall clock (Date.now, in ticks) takes in one run.
MaxClock == 2

\* ---------------------------------------------------------------- universe
Users == {"u1", "u2"}
\* The id no ObjectId parser accepts (a request's :id that is not 24 hex digits).
MalformedId == 0
ObjectIds == 1..MaxNotes
ReqIds == {MalformedId} \cup ObjectIds
Titles == {"a"}
Contents == {"c"}
TagNames == {"t"}
TagArrays == {<<>>, <<"t">>}
BodyColours == {"coral", "neon"}

\* The name field of add-tag and update-tag bodies.
LabelNames == {"", " ", "t", "T"}
\* The number of labels at which add-tag refuses another one.
LABEL_LIMIT == 50
\* The names of the labels a store holds before the requests of a run: the k-th
\* label a user added is named "l" followed by k.
StoredName(k) == "l" \o ToString(k)
StoredNames == {StoredName(k) : k \in 1..LABEL_LIMIT}
\* An ObjectId no document was ever given.
UnknownId == MaxNotes + LABEL_LIMIT + 3
\* The :id of a label request: malformed, the first label's, or unknown.
LabelReqIds == {MalformedId, MaxNotes + 1, UnknownId}

\* An optional value: <<>> is JavaScript's undefined, <<v>> the value v.
Opt(S) == {<<>>} \cup {<<v>> : v \in S}
Some(o) == o # <<>>
Val(o) == o[1]

\* ------------------------------------------------------- src/utils/encryption.js
\* AES-256-CBC under a fixed key and a fixed IV: deterministic and injective;
\* the ciphertext of "" is one padding block, never the empty string.
encrypt(text) == "aes:" \o text
PlainTexts == Titles \cup Contents \cup TagNames \cup LabelNames \cup StoredNames
CipherTexts == {encrypt(t) : t \in PlainTexts}
\* decipher.final() throws on input that is no ciphertext (the schema's raw "").
decryptThrows(encryptedText) == encryptedText \notin CipherTexts
PlainOf == [c \in CipherTexts |-> CHOOSE t \in PlainTexts : encrypt(t) = c]
decrypt(encryptedText) == PlainOf[encryptedText]

\* ---------------------------------------------------- src/middlewares/validation.js
ALLOWED_COLOURS ==
  {"default", "coral", "peach", "sand", "mint", "sage", "fog", "storm", "dusk",
   "blossom", "clay", "chalk"}

\* mongoose.Types.ObjectId.isValid(id); the message thrown, "" when none is.
validateObjectId(id) == IF id \in ObjectIds THEN "" ELSE "Invalid note ID format"

\* checkNoteOwnership without its owner comparison.
checkNoteOwnership_noOwnerCheck(note, userId) ==
  IF ~Some(note) THEN "Note not found" ELSE ""

\* note is Opt(document): <<>> is findById's null.
checkNoteOwnership(note, userId) ==
  IF ~Some(note) THEN "Note not found"
  ELSE IF Val(note).user # userId THEN "Access denied"
  ELSE ""

\* "" when the body passes, the message of the validation error otherwise.  The
\* texts of the universe are trimmed and shorter than the two length limits.
noteTextValidation(body) ==
  IF (~Some(body.title) \/ Val(body.title) = "")
     /\ (~Some(body.content) \/ Val(body.content) = "")
  THEN "Either title or content is required"
  ELSE ""

MAX_TAG_LENGTH == 10
MAX_TAGS_COUNT == 50

\* The label names of the universe are all at most MAX_TAG_LENGTH characters long.
tagLength(t) == IF t = "" THEN 0 ELSE 1

\* The message colourValidation throws: the allowed colours joined by ", ".
ColourErrorText ==
  "Invalid colour. Must be one of: default, coral, peach, sand, mint, sage, fog, storm, dusk, blossom, clay, chalk"

colourValidation(body) ==
  IF Some(body.colour) /\ Val(body.colour) # "" /\ Val(body.colour) \notin ALLOWED_COLOURS
  THEN ColourErrorText
  ELSE ""

\* ------------------------------------------------------- src/utils/noteUtils.js
\* The fields encryptNote returns, each undefined when noteData has none.
encryptNote(noteData) ==
  [title   |-> IF Some(noteData.title) THEN <<encrypt(Val(noteData.title))>> ELSE <<>>,
   content |-> IF Some(noteData.content) THEN <<encrypt(Val(noteData.content))>> ELSE <<>>,
   tag     |-> IF Some(noteData.tag)
               THEN LET kept == SelectSeq(Val(noteData.tag), LAMBDA t : t # "")
                    IN  << [i \in 1..Len(kept) |-> encrypt(kept[i])] >>
               ELSE <<>>]

\* handleError(error, res, defaultMessage): the response as [status, error].
handleError(message, defaultMessage) ==
  [status |-> IF message = "Invalid note ID format" THEN 400
              ELSE IF message = "Note not found" THEN 404
              ELSE IF message = "Access denied" THEN 403
              ELSE IF message = "Validation failed" THEN 400
              ELSE 500,
   error  |-> IF message # "" THEN message ELSE defaultMessage]

\* ------------------------------------------------------------------- state
VARIABLES
  notes,    \* the Note collection: ObjectId -> document, for the ids stored
  tags,     \* the Tag collection: ObjectId -> document
  nextId,   \* the next ObjectId Note.create allocates
  now,      \* the wall clock
  last,     \* the request served last and the response sent for it
  bodyUser, \* the user field of the body of the request served last, <<>> when none
  pending,  \* the toggle requests in flight at once: slot -> the handler's locals
  origin    \* the Note collection when the requests in flight were issued

vars == <<notes, tags, nextId, now, last, bodyUser, pending, origin>>

\* ------------------------------------------------------ src/models/Note.js
\* The paths of noteSchema.  The schema is strict: a field it does not declare
\* (colour, order) is dropped from every create and every update.
SchemaPaths == {"user", "title", "content", "tag", "isPinned", "isArchived", "isDeleted"}

\* allowedFields with the owner among them.
BodyFields_withUser ==
  {"user", "title", "content", "tag", "isPinned", "isArchived", "isDeleted", "colour"}

\* allowedFields of update-note: the fields of a request body the route passes on.
BodyFields == {"title", "content", "tag", "isPinned", "isArchived", "isDeleted", "colour"}

\* An update that sets nothing; a body or a $set carries each field optionally.
NoFields ==
  [user |-> <<>>, title |-> <<>>, content |-> <<>>, tag |-> <<>>, isPinned |-> <<>>,
   isArchived |-> <<>>, isDeleted |-> <<>>, colour |-> <<>>]

\* Object.entries(req.body) filtered by allowedFields.
pickAllowed(body) == [f \in DOMAIN body |-> IF f \in BodyFields THEN body[f] ELSE <<>>]

\* note[path] as a route or a query reads it: undefined unless the document holds
\* the path (no document the routes store holds order or colour: the schema
\* declares neither).
get(note, path) == IF path \in DOMAIN note THEN <<note[path]>> ELSE <<>>

\* Note.findById(id): <<>> is null.
findById(id) == IF id \in DOMAIN notes THEN <<notes[id]>> ELSE <<>>

\* One path of a document after $set: the update's value when the schema declares
\* the path and the update carries it, the stored value otherwise.
setPath(doc, updates, path) ==
  IF path \in SchemaPaths /\ Some(updates[path]) THEN Val(updates[path]) ELSE doc[path]

\* The document after { $set: updates }; updatedAt is stamped when timestamps is on.
applySet(doc, updates, timestamps, at) ==
  [user       |-> setPath(doc, updates, "user"),
   title      |-> setPath(doc, updates, "title"),
   content    |-> setPath(doc, updates, "content"),
   tag        |-> setPath(doc, updates, "tag"),
   isPinned   |-> setPath(doc, updates, "isPinned"),
   isArchived |-> setPath(doc, updates, "isArchived"),
   isDeleted  |-> setPath(doc, updates, "isDeleted"),
   updatedAt  |-> IF timestamps THEN at ELSE doc.updatedAt]

\* Note.findByIdAndUpdate(id, { $set: updates }, { timestamps }): the collection after it.
findByIdAndUpdate(id, updates, timestamps, at) ==
  IF id \in DOMAIN notes
  THEN [notes EXCEPT ![id] = applySet(notes[id], updates, timestamps, at)]
  ELSE notes

\* Note.findByIdAndDelete(id): the collection after it.
findByIdAndDelete(id) == [i \in DOMAIN notes \ {id} |-> notes[i]]

\* Note.create(fields): the document stored, schema defaults filled in.
createDoc(userId, fields, at) ==
  [user       |-> userId,
   title      |-> IF Some(fields.title) THEN Val(fields.title) ELSE "",
   content    |-> IF Some(fields.content) THEN Val(fields.content) ELSE "",
   tag        |-> IF Some(fields.tag) THEN Val(fields.tag) ELSE <<>>,
   isPinned   |-> IF Some(fields.isPinned) THEN Val(fields.isPinned) ELSE FALSE,
   isArchived |-> IF Some(fields.isArchived) THEN Val(fields.isArchived) ELSE FALSE,
   isDeleted  |-> IF Some(fields.isDeleted) THEN Val(fields.isDeleted) ELSE FALSE,
   updatedAt  |-> at]

\* ------------------------------------------------------------ responses
Respond(op, userId, id, response) ==
  last' = [op |-> op, user |-> userId, id |-> id,
           status |-> response.status, error |-> response.error]

Ok(status) == [status |-> status, error |-> ""]

\* A request that ends without a write (a read, a rejection, a failure).
Reject(op, userId, id, response) ==
  /\ Respond(op, userId, id, response)
  /\ UNCHANGED <<notes, tags, nextId, now>>

\* A request that ends with findByIdAndUpdate on its note.  The clock has moved on
\* since the request before it, so a stamped updatedAt differs from the stored one.
Write(op, userId, id, updates, timestamps) ==
  /\ timestamps => now < MaxClock
  /\ now' = IF timestamps THEN now + 1 ELSE now
  /\ notes' = findByIdAndUpdate(id, updates, timestamps, now')
  /\ Respond(op, userId, id, Ok(200))
  /\ UNCHANGED <<tags, nextId>>

\* validateObjectId, findById and checkNoteOwnership as every :id route runs them:
\* the message thrown before the handler's own work, "" when none is.
preError(id, userId) ==
  IF validateObjectId(id) # "" THEN validateObjectId(id)
  ELSE checkNoteOwnership(findById(id), userId)

\* ------------------------------------------------------ src/routes/notes.js
togglePinUpdates(note) ==
  IF note.isPinned
  THEN [NoFields EXCEPT !.isPinned = <<FALSE>>]
  ELSE [NoFields EXCEPT !.isPinned = <<TRUE>>, !.isArchived = <<FALSE>>]

\* ROUTE 6: PUT /toggle-pin/:id
TogglePin(userId, id) ==
  LET message == preError(id, userId)
      default == "Failed to toggle pin. Please try again"
  IN  IF message # "" THEN Reject("toggle-pin", userId, id, handleError(message, default))
      ELSE Write("toggle-pin", userId, id, togglePinUpdates(notes[id]), TRUE)

toggleArchiveUpdates(note) ==
  IF note.isArchived
  THEN [NoFields EXCEPT !.isArchived = <<FALSE>>]
  ELSE [NoFields EXCEPT !.isArchived = <<TRUE>>, !.isPinned = <<FALSE>>]

\* ROUTE 7: PUT /toggle-archive/:id
ToggleArchive(userId, id) ==
  LET message == preError(id, userId)
      default == "Failed to toggle archive. Please try again"
  IN  IF message # "" THEN Reject("toggle-archive", userId, id, handleError(message, default))
      ELSE Write("toggle-archive", userId, id, toggleArchiveUpdates(notes[id]), TRUE)

toggleDeleteUpdates(note) ==
  IF note.isDeleted
  THEN [NoFields EXCEPT !.isDeleted = <<FALSE>>]
  ELSE [NoFields EXCEPT !.isDeleted = <<TRUE>>, !.isPinned = <<FALSE>>,
                        !.isArchived = <<FALSE>>]

\* ROUTE 8: PUT /toggle-delete/:id
ToggleDelete(userId, id) ==
  LET message == preError(id, userId)
      default == "Failed to toggle delete. Please try again"
  IN  IF message # "" THEN Reject("toggle-delete", userId, id, handleError(message, default))
      ELSE Write("toggle-delete", userId, id, toggleDeleteUpdates(notes[id]), TRUE)

\* ROUTE 9: DELETE /permanent-delete/:id
PermanentDelete(userId, id) ==
  LET message == preError(id, userId)
      default == "Failed to permanently delete note. Please try again"
  IN  IF message # ""
      THEN Reject("permanent-delete", userId, id, handleError(message, default))
      ELSE IF ~notes[id].isDeleted
      THEN Reject("permanent-delete", userId, id,
                  [status |-> 400,
                   error |-> "Note must be moved to bin before permanent deletion"])
      ELSE /\ notes' = findByIdAndDelete(id)
           /\ Respond("permanent-delete", userId, id, Ok(200))
           /\ UNCHANGED <<tags, nextId, now>>

\* buildCategoryFilter(filter, userId) as Note.find applies it to one document.
buildCategoryFilter(note, filter, userId) ==
  /\ note.user = userId
  /\ IF filter = "pinned" THEN note.isPinned
     ELSE IF filter = "archived" THEN note.isArchived
     ELSE IF filter = "deleted" THEN note.isDeleted
     ELSE ~note.isPinned /\ ~note.isArchived /\ ~note.isDeleted

\* ALLOWED_CATEGORIES without "regular", and "": the filters fetch-notes accepts.
allowedFilters == {"pinned", "archived", "deleted", ""}
\* The filters a fetch-notes request may carry; "regular" is one it refuses.
Filters == allowedFilters \cup {"regular"}

\* The sequences that list every element of S once.
Listings(S) ==
  {s \in [1..Cardinality(S) -> S] : \A i, j \in 1..Cardinality(S) : i # j => s[i] # s[j]}

\* Note.find(query).sort({ updatedAt: -1 }): the ids of the matching documents,
\* the one stamped last first (no two stored notes carry the same stamp).
find(coll, userId, filter) ==
  CHOOSE s \in Listings({id \in DOMAIN coll : buildCategoryFilter(coll[id], filter, userId)}) :
    \A i, j \in 1..Len(s) : i < j => coll[s[i]].updatedAt >= coll[s[j]].updatedAt

\* The message of the error the driver raises when the database does not answer.
StorageErrorText == "connect ECONNREFUSED 127.0.0.1:27017"

\* The message decryptNote throws on a document, "" when it decrypts.
DecryptErrorText == "error:1C80006B:Provider routines::wrong final block length"
decryptNoteError(note) ==
  IF decryptThrows(note.title) \/ decryptThrows(note.content)
     \/ \E i \in 1..Len(note.tag) : decryptThrows(note.tag[i])
  THEN DecryptErrorText
  ELSE ""

\* ROUTE 1: GET /fetch-notes.  storageFails: Note.find rejects.  The response body
\* of a 200 is find(notes, userId, filter), decrypted.
FetchNotes(userId, filter, storageFails) ==
  LET default == "Failed to fetch notes. Please reload the page"
      found == find(notes, userId, filter)
      thrown == {decryptNoteError(notes[found[i]]) : i \in 1..Len(found)} \ {""}
  IN  IF filter \notin allowedFilters
      THEN Reject("fetch-notes", userId, MalformedId,
                  [status |-> 400,
                   error |-> "Invalid filter. Must be one of: pinned, archived, deleted or none"])
      ELSE IF storageFails
      THEN Reject("fetch-notes", userId, MalformedId, handleError(StorageErrorText, default))
      ELSE IF thrown # {}
      THEN Reject("fetch-notes", userId, MalformedId, handleError(DecryptErrorText, default))
      ELSE Reject("fetch-notes", userId, MalformedId, Ok(200))

\* String.prototype.toLowerCase, trim and includes on the texts of this universe
\* (no text is longer than one character once trimmed).
toLowerCase(text) == IF text = "A" THEN "a" ELSE IF text = "T" THEN "t" ELSE text
trim(text) == IF text = " " THEN "" ELSE text
includes(text, part) == part = "" \/ part = text

\* The query texts a search request may carry, and the label names of search-by-tag.
SearchTexts == {"", " ", "A", "c"}
SearchTags == {"", "t", "T"}

\* Note.find({ user, isDeleted: false }).sort({ updatedAt: -1 }) of both search routes.
findLive(coll, userId) ==
  CHOOSE s \in Listings({id \in DOMAIN coll : coll[id].user = userId /\ ~coll[id].isDeleted}) :
    \A i, j \in 1..Len(s) : i < j => coll[s[i]].updatedAt >= coll[s[j]].updatedAt

\* The filter callback of /search on a note that decrypts.
searchMatch(note, searchText) ==
  \/ includes(toLowerCase(decrypt(note.title)), searchText)
  \/ includes(toLowerCase(decrypt(note.content)), searchText)
  \/ \E i \in 1..Len(note.tag) : includes(toLowerCase(decrypt(note.tag[i])), searchText)

\* The ids of the notes a 200 of /search lists.
search(coll, userId, text) ==
  LET searchText == trim(toLowerCase(text))
  IN  IF searchText = "" THEN <<>>
      ELSE SelectSeq(findLive(coll, userId),
                     LAMBDA id : decryptNoteError(coll[id]) = ""
                                 /\ searchMatch(coll[id], searchText))

\* The ids of the notes a 200 of /search-by-tag lists.
searchByTag(coll, userId, tagName) ==
  LET searchTag == trim(tagName)
  IN  IF searchTag = "" THEN <<>>
      ELSE SelectSeq(findLive(coll, userId),
                     LAMBDA id : /\ decryptNoteError(coll[id]) = ""
                                 /\ \E i \in 1..Len(coll[id].tag) :
                                      decrypt(coll[id].tag[i]) = searchTag)

\* ROUTE 2: GET /search.  The response body of a 200 is search(notes, userId, text).
Search(userId, text, storageFails) ==
  LET default == "Failed to search notes. Please reload the page or try again"
      found == findLive(notes, userId)
      thrown == {decryptNoteError(notes[found[i]]) : i \in 1..Len(found)} \ {""}
  IN  IF trim(toLowerCase(text)) = ""
      THEN Reject("search", userId, MalformedId, Ok(200))
      ELSE IF storageFails
      THEN Reject("search", userId, MalformedId, handleError(StorageErrorText, default))
      ELSE IF thrown # {}
      THEN Reject("search", userId, MalformedId, handleError(DecryptErrorText, default))
      ELSE Reject("search", userId, MalformedId, Ok(200))

\* ROUTE 3: GET /search-by-tag.  The response body of a 200 is
\* searchByTag(notes, userId, tagName).
SearchByTag(userId, tagName, storageFails) ==
  LET default == "Failed to find notes with label \"" \o trim(tagName)
                 \o "\". Please reload the page or try again"
      found == findLive(notes, userId)
      thrown == {decryptNoteError(notes[found[i]]) : i \in 1..Len(found)} \ {""}
  IN  IF trim(tagName) = ""
      THEN Reject("search-by-tag", userId, MalformedId, Ok(200))
      ELSE IF storageFails
      THEN Reject("search-by-tag", userId, MalformedId,
                  handleError(StorageErrorText, default))
      ELSE IF thrown # {}
      THEN Reject("search-by-tag", userId, MalformedId,
                  handleError(DecryptErrorText, default))
      ELSE Reject("search-by-tag", userId, MalformedId, Ok(200))

\* ROUTE 4: POST /add-note.  The note is stored before the response is built, so
\* a throw of decryptNote answers 500 for a note that exists.
AddNote(userId, body) ==
  LET default == "Failed to add note. Please try again"
      encryptedFields == encryptNote(body)
      fields == [body EXCEPT !.title = encryptedFields.title,
                             !.content = encryptedFields.content,
                             !.tag = encryptedFields.tag]
  IN  IF noteTextValidation(body) # ""
      THEN Reject("add-note", userId, nextId,
                  [status |-> 400, error |-> noteTextValidation(body)])
      ELSE /\ nextId <= MaxNotes
           /\ now < MaxClock
           /\ now' = now + 1
           /\ notes' = notes @@ (nextId :> createDoc(userId, fields, now'))
           /\ nextId' = nextId + 1
           /\ Respond("add-note", userId, nextId,
                      IF decryptNoteError(notes'[nextId]) # ""
                      THEN handleError(decryptNoteError(notes'[nextId]), default)
                      ELSE Ok(201))
           /\ UNCHANGED tags

\* prevNote.<path> === updatedNote.<path>, false when the update has no such field.
sameAsStored(prevNote, updatedNote, path) ==
  Some(updatedNote[path]) /\ Val(updatedNote[path]) = prevNote[path]

isNoteChanged(prevNote, updatedNote) ==
  ~(/\ sameAsStored(prevNote, updatedNote, "title")
    /\ sameAsStored(prevNote, updatedNote, "content")
    /\ sameAsStored(prevNote, updatedNote, "isPinned")
    /\ sameAsStored(prevNote, updatedNote, "isArchived")
    /\ sameAsStored(prevNote, updatedNote, "isDeleted"))

\* ROUTE 5: PUT /update-note/:id.  colourValidation runs before the handler.
UpdateNote(userId, id, body) ==
  LET message == preError(id, userId)
      default == "Failed to update note. Please try again"
      encryptedUpdates == encryptNote(body)
      updatedNote == [pickAllowed(body) EXCEPT !.title = encryptedUpdates.title,
                                               !.content = encryptedUpdates.content,
                                               !.tag = encryptedUpdates.tag]
  IN  IF colourValidation(body) # ""
      THEN Reject("update-note", userId, id,
                  [status |-> 400, error |-> colourValidation(body)])
      ELSE IF message # ""
      THEN Reject("update-note", userId, id, handleError(message, default))
      ELSE Write("update-note", userId, id, updatedNote,
                 isNoteChanged(notes[id], updatedNote))

\* ROUTE 10: PUT /change-colour/:id.  colourValidation runs before the handler.
ChangeColour(userId, id, body) ==
  LET message == preError(id, userId)
      default == "Failed to change note colour. Please try again"
  IN  IF colourValidation(body) # ""
      THEN Reject("change-colour", userId, id, [status |-> 400, error |-> colourValidation(body)])
      ELSE IF message # "" THEN Reject("change-colour", userId, id, handleError(message, default))
      ELSE IF get(notes[id], "colour") = body.colour
      THEN Reject("change-colour", userId, id, Ok(200))
      ELSE Write("change-colour", userId, id, [NoFields EXCEPT !.colour = body.colour], FALSE)

\* tagArrayValidation: "" when the body passes, the validation message otherwise.
\* A tag of the universe is always an array of strings.
tagArrayValidation(body, userId) ==
  LET tag == Val(body.tag)
      globalTags == {decrypt(tags[i].name) : i \in {j \in DOMAIN tags : tags[j].user = userId}}
  IN  IF ~Some(body.tag) THEN ""
      ELSE IF Len(tag) > MAX_TAGS_COUNT THEN "Maximum 50 tags allowed"
      ELSE IF \E i \in 1..Len(tag) : tag[i] = "" \/ tagLength(tag[i]) > MAX_TAG_LENGTH
      THEN "Each lebel must be a non-empty string with maximum 10 characters"
      ELSE IF \E i \in 1..Len(tag) : tag[i] \notin globalTags
      THEN "Label should be added first before use"
      ELSE ""

\* The message of the TypeError tag.map throws when the body has no tag.
TypeErrorText == "Cannot read properties of undefined (reading 'map')"

\* The second ROUTE 10: PUT /change-tags/:id.  tagArrayValidation runs before the handler.
ChangeTags(userId, id, body) ==
  LET message == preError(id, userId)
      default == "Failed to change note tags. Please try again"
  IN  IF tagArrayValidation(body, userId) # ""
      THEN Reject("change-tags", userId, id, [status |-> 400, error |-> tagArrayValidation(body, userId)])
      ELSE IF message # "" THEN Reject("change-tags", userId, id, handleError(message, default))
      ELSE IF ~Some(body.tag) THEN Reject("change-tags", userId, id, handleError(TypeErrorText, default))
      ELSE Write("change-tags", userId, id,
                 [NoFields EXCEPT !.tag = << [i \in 1..Len(Val(body.tag)) |->
                                               encrypt(Val(body.tag)[i])] >>],
                 FALSE)

\* The categories a reorder request may name ("" is regular) and the batches of
\* note ids it may carry: every sequence of stored or unknown ids without duplicate.
ReorderCategories == {"", "deleted"}
OrderedIds ==
  {<<>>} \cup {<<i>> : i \in ObjectIds}
         \cup {p \in ObjectIds \X ObjectIds : p[1] # p[2]}

\* A reorder request.  The router declares no route for it (its routes are the ten
\* above), so the request runs no handler: Express's final handler answers 404
\* and nothing is read or written.
Reorder(userId, category, orderedIds) ==
  Reject("reorder", userId, MalformedId, [status |-> 404, error |-> ""])

\* ------------------------------------------------------------ request bodies
Bodies ==
  [user : Opt(Users), title : Opt(Titles), content : Opt(Contents), tag : Opt(TagArrays),
   isPinned : Opt(BOOLEAN), isArchived : Opt(BOOLEAN), isDeleted : Opt(BOOLEAN),
   colour : Opt(BodyColours)]

\* The fields of a body that are present.
Present(b) == {f \in DOMAIN b : Some(b[f])}

\* add-note bodies: text and the three category flags, or a body without text.
AddBodies ==
  {b \in Bodies :
     /\ Present(b) \subseteq {"title", "content", "isPinned", "isArchived", "isDeleted"}
     /\ \/ {"content", "isPinned", "isArchived", "isDeleted"} \subseteq Present(b)
        \/ Present(b) = {}}

\* update-note bodies: the whole note as an editor sends it, or at most one field
\* (which may be a user field, naming the requester or somebody else).
UpdateBodies ==
  {b \in Bodies :
     \/ Present(b) = {"title", "content", "isPinned", "isArchived", "isDeleted"}
     \/ Cardinality(Present(b)) <= 1 /\ ~Some(b.tag)}

\* change-colour bodies carry a colour or nothing; change-tags bodies a tag or nothing.
ColourBodies == {b \in Bodies : Present(b) \subseteq {"colour"}}
TagBodies == {b \in Bodies : Present(b) \subseteq {"tag"}}

\* Two requests at most are in flight at once.
Slots == {1, 2}

\* The locals of a handler that has not started.
Idle ==
  [op |-> "none", user |-> "u1", id |-> MalformedId, pc |-> "idle", note |-> <<>>,
   status |-> 0]

\* A request served from start to end with no other request in flight; bu is the
\* user field of its body.
Sequential(bu) ==
  /\ bodyUser' = bu
  /\ UNCHANGED <<pending, origin>>

Init ==
  /\ notes = << >>
  /\ tags = << >>
  /\ nextId = 1
  /\ now = 0
  /\ last = [op |-> "none", user |-> "u1", id |-> MalformedId, status |-> 0, error |-> ""]
  /\ bodyUser = <<>>
  /\ pending = [r \in Slots |-> Idle]
  /\ origin = << >>

Next ==
  \/ \E u \in Users, b \in AddBodies : AddNote(u, b) /\ Sequential(b.user)
  \/ \E u \in Users, id \in ReqIds, b \in UpdateBodies :
       UpdateNote(u, id, b) /\ Sequential(b.user)
  \/ \E u \in Users, id \in ReqIds : TogglePin(u, id) /\ Sequential(<<>>)
  \/ \E u \in Users, id \in ReqIds : ToggleArchive(u, id) /\ Sequential(<<>>)
  \/ \E u \in Users, id \in ReqIds : ToggleDelete(u, id) /\ Sequential(<<>>)
  \/ \E u \in Users, id \in ReqIds : PermanentDelete(u, id) /\ Sequential(<<>>)
  \/ \E u \in Users, t \in SearchTexts, f \in BOOLEAN : Search(u, t, f) /\ Sequential(<<>>)
  \/ \E u \in Users, t \in SearchTags, f \in BOOLEAN :
       SearchByTag(u, t, f) /\ Sequential(<<>>)
  \/ \E u \in Users, id \in ReqIds, b \in ColourBodies :
       ChangeColour(u, id, b) /\ Sequential(b.user)
  \/ \E u \in Users, id \in ReqIds, b \in TagBodies :
       ChangeTags(u, id, b) /\ Sequential(b.user)
  \/ \E u \in Users, f \in Filters, storageFails \in BOOLEAN :
       FetchNotes(u, f, storageFails) /\ Sequential(<<>>)
  \/ \E u \in Users, c \in ReorderCategories, ids \in OrderedIds :
       Reorder(u, c, ids) /\ Sequential(<<>>)

Spec == Init /\ [][Next]_vars

\* The store as add-note requests { title: "a", content: "c", isDeleted: true } of
\* user u1 leave it, one request per ObjectId and one clock tick apart, the clock's
\* origin set at the last of them: a bin with every note in it.
InitBin ==
  /\ notes = [id \in ObjectIds |->
               createDoc("u1",
                         [NoFields EXCEPT !.title = <<encrypt("a")>>,
                                          !.content = <<encrypt("c")>>,
                                          !.isPinned = <<FALSE>>,
                                          !.isArchived = <<FALSE>>,
                                          !.isDeleted = <<TRUE>>],
                         id - MaxNotes)]
  /\ tags = << >>
  /\ nextId = MaxNotes + 1
  /\ now = 0
  /\ last = [op |-> "add-note", user |-> "u1", id |-> MaxNotes, status |-> 201, error |-> ""]
  /\ bodyUser = <<>>
  /\ pending = [r \in Slots |-> Idle]
  /\ origin = << >>

\* The routes, served one request at a time, on a store that starts as a full bin.
SpecBin == InitBin /\ [][Next]_vars

\* The flag triples of the four categories a note is meant to be in.
CategoryFlags ==
  {<<FALSE, FALSE, FALSE>>, <<TRUE, FALSE, FALSE>>, <<FALSE, TRUE, FALSE>>,
   <<FALSE, FALSE, TRUE>>}

\* ------------------------------------------------------ the rank-shift helpers
\* Note.updateMany(query, { <operator>: { <path>: amount } }, { timestamps: false })
\* on the documents `matched`.  The schema is strict, so a path it does not declare
\* is dropped from the update and nothing is left to apply; $inc is the one
\* arithmetic update operator MongoDB has, any other is refused by the server.
updateMany(coll, matched, operator, path, amount) ==
  IF path \notin SchemaPaths THEN coll
  ELSE IF operator # "$inc" THEN coll
  ELSE [id \in DOMAIN coll |->
          IF id \in matched THEN [coll[id] EXCEPT ![path] = @ + amount] ELSE coll[id]]

\* reorderPreviousCategoryNotes(noteOrder, categoryFilter, session), categoryFilter
\* being buildCategoryFilter(filter, userId): { $dec: { order: 1 } } on the notes
\* of the category whose order is greater than noteOrder.
reorderPreviousCategoryNotes(coll, noteOrder, filter, userId) ==
  updateMany(coll,
             {id \in DOMAIN coll : /\ buildCategoryFilter(coll[id], filter, userId)
                                   /\ Some(get(coll[id], "order"))
                                   /\ Val(get(coll[id], "order")) > noteOrder},
             "$dec", "order", 1)

\* reorderNewCategoryNotes(categoryFilter, session): { $inc: { order: 1 } } on the
\* notes of the category.
reorderNewCategoryNotes(coll, filter, userId) ==
  updateMany(coll, {id \in DOMAIN coll : buildCategoryFilter(coll[id], filter, userId)},
             "$inc", "order", 1)

\* The ranks a note may be stored with.
Ranks == 0..(MaxNotes - 1)

\* A collection of MaxNotes notes, each of either user and in any of the four
\* categories.  No route calls the helpers, so they are applied to the collection
\* as MongoDB may hold it: the documents are those add-note stores, and each may
\* carry an order field written by other code (the collection itself has no schema).
InitShift ==
  /\ \E owner \in [ObjectIds -> Users], flags \in [ObjectIds -> CategoryFlags],
        order \in [ObjectIds -> Opt(Ranks)] :
       notes = [id \in ObjectIds |->
                 LET doc == createDoc(owner[id],
                                      [NoFields EXCEPT !.title = <<encrypt("a")>>,
                                                       !.content = <<encrypt("c")>>,
                                                       !.isPinned = <<flags[id][1]>>,
                                                       !.isArchived = <<flags[id][2]>>,
                                                       !.isDeleted = <<flags[id][3]>>],
                                      id - MaxNotes)
                 IN  IF Some(order[id]) THEN doc @@ ("order" :> Val(order[id])) ELSE doc]
  /\ tags = << >>
  /\ nextId = MaxNotes + 1
  /\ now = 0
  /\ last = [op |-> "none", user |-> "u1", id |-> MalformedId, status |-> 0, error |-> ""]
  /\ bodyUser = <<>>
  /\ pending = [r \in Slots |-> Idle]
  /\ origin = << >>

\* A call of a helper: the collection after it, and in last the helper called and
\* the user of its category filter.
Called(helper, userId) ==
  /\ last' = [op |-> helper, user |-> userId, id |-> MalformedId, status |-> 0, error |-> ""]
  /\ UNCHANGED <<tags, nextId, now, bodyUser, pending, origin>>

ReorderPrevious(userId, filter, noteOrder) ==
  /\ notes' = reorderPreviousCategoryNotes(notes, noteOrder, filter, userId)
  /\ Called("reorderPreviousCategoryNotes", userId)

ReorderNew(userId, filter) ==
  /\ notes' = reorderNewCategoryNotes(notes, filter, userId)
  /\ Called("reorderNewCategoryNotes", userId)

NextShift ==
  \/ \E u \in Users, f \in allowedFilters, k \in Ranks : ReorderPrevious(u, f, k)
  \/ \E u \in Users, f \in allowedFilters : ReorderNew(u, f)

\* The two helpers, called on any collection with any arguments.
SpecShift == InitShift /\ [][NextShift]_vars

\* ------------------------------------------------------ requests in flight at once
\* Each toggle handler awaits twice: Note.findById, then Note.findByIdAndUpdate.
\* Node runs a handler up to its next await, so two requests interleave at these
\* points and nowhere else; no handler opens a transaction.
ToggleOps == {"toggle-pin", "toggle-archive", "toggle-delete"}

toggleUpdates(op, note) ==
  IF op = "toggle-pin" THEN togglePinUpdates(note)
  ELSE IF op = "toggle-archive" THEN toggleArchiveUpdates(note)
  ELSE toggleDeleteUpdates(note)

toggleDefault(op) ==
  IF op = "toggle-pin" THEN "Failed to toggle pin. Please try again"
  ELSE IF op = "toggle-archive" THEN "Failed to toggle archive. Please try again"
  ELSE "Failed to toggle delete. Please try again"

\* The store as add-note requests of user u1 leave it, one per ObjectId and one
\* clock tick apart, each note created into one of the four categories.
InitConc ==
  /\ \E flags \in [ObjectIds -> CategoryFlags] :
       notes = [id \in ObjectIds |->
                 createDoc("u1",
                           [NoFields EXCEPT !.title = <<encrypt("a")>>,
                                            !.content = <<encrypt("c")>>,
                                            !.isPinned = <<flags[id][1]>>,
                                            !.isArchived = <<flags[id][2]>>,
                                            !.isDeleted = <<flags[id][3]>>],
                           id - MaxNotes)]
  /\ tags = << >>
  /\ nextId = MaxNotes + 1
  /\ now = 0
  /\ last = [op |-> "add-note", user |-> "u1", id |-> MaxNotes, status |-> 201, error |-> ""]
  /\ bodyUser = <<>>
  /\ pending = [r \in Slots |-> Idle]
  /\ origin = notes

\* A toggle handler from its start to its first await: validateObjectId, then
\* Note.findById is issued and its result is what the handler goes on with.
ToggleRead(r, op, userId, id) ==
  /\ pending[r].pc = "idle"
  /\ IF validateObjectId(id) # ""
     THEN /\ Reject(op, userId, id, handleError(validateObjectId(id), toggleDefault(op)))
          /\ pending' = [pending EXCEPT ![r] =
                           [op |-> op, user |-> userId, id |-> id, pc |-> "done",
                            note |-> <<>>, status |-> 400]]
     ELSE /\ pending' = [pending EXCEPT ![r] =
                           [op |-> op, user |-> userId, id |-> id, pc |-> "read",
                            note |-> findById(id), status |-> 0]]
          /\ UNCHANGED <<notes, tags, nextId, now, last>>
  /\ UNCHANGED <<bodyUser, origin>>

\* The rest of the handler: checkNoteOwnership on the note read, the updates
\* computed from that note, Note.findByIdAndUpdate, the response.
ToggleWrite(r) ==
  /\ pending[r].pc = "read"
  /\ pending[r].op \in ToggleOps
  /\ LET q == pending[r]
         message == checkNoteOwnership(q.note, q.user)
         response == handleError(message, toggleDefault(q.op))
     IN  IF message # ""
         THEN /\ Reject(q.op, q.user, q.id, response)
              /\ pending' = [pending EXCEPT ![r].pc = "done", ![r].status = response.status]
         ELSE /\ Write(q.op, q.user, q.id, toggleUpdates(q.op, Val(q.note)), TRUE)
              /\ pending' = [pending EXCEPT ![r].pc = "done", ![r].status = 200]
  /\ UNCHANGED <<bodyUser, origin>>

NextConc ==
  \/ \E r \in Slots, op \in ToggleOps, u \in Users, id \in ReqIds : ToggleRead(r, op, u, id)
  \/ \E r \in Slots : ToggleWrite(r)

\* Two toggle requests issued at once against a store of MaxNotes notes.
SpecConc == InitConc /\ [][NextConc]_vars

\* The permanent-delete handler from its start to its first await: validateObjectId,
\* then Note.findById.
PermanentDeleteRead(r, userId, id) ==
  LET default == "Failed to permanently delete note. Please try again"
  IN  /\ pending[r].pc = "idle"
      /\ IF validateObjectId(id) # ""
         THEN /\ Reject("permanent-delete", userId, id,
                        handleError(validateObjectId(id), default))
              /\ pending' = [pending EXCEPT ![r] =
                               [op |-> "permanent-delete", user |-> userId, id |-> id,
                                pc |-> "done", note |-> <<>>, status |-> 400]]
         ELSE /\ pending' = [pending EXCEPT ![r] =
                               [op |-> "permanent-delete", user |-> userId, id |-> id,
                                pc |-> "read", note |-> findById(id), status |-> 0]]
              /\ UNCHANGED <<notes, tags, nextId, now, last>>
      /\ UNCHANGED <<bodyUser, origin>>

\* The rest of the handler: checkNoteOwnership and the isDeleted test on the note
\* read, then Note.findByIdAndDelete and the response.
PermanentDeleteWrite(r) ==
  /\ pending[r].pc = "read"
  /\ pending[r].op = "permanent-delete"
  /\ LET q == pending[r]
         message == checkNoteOwnership(q.note, q.user)
         response ==
           IF message # ""
           THEN handleError(message, "Failed to permanently delete note. Please try again")
           ELSE IF ~Val(q.note).isDeleted
           THEN [status |-> 400,
                 error |-> "Note must be moved to bin before permanent deletion"]
           ELSE Ok(200)
     IN  /\ IF response.status # 200
            THEN Reject(q.op, q.user, q.id, response)
            ELSE /\ notes' = findByIdAndDelete(q.id)
                 /\ Respond(q.op, q.user, q.id, response)
                 /\ UNCHANGED <<tags, nextId, now>>
         /\ pending' = [pending EXCEPT ![r].pc = "done", ![r].status = response.status]
  /\ UNCHANGED <<bodyUser, origin>>

NextPurge ==
  \/ \E r \in Slots, u \in Users, id \in ReqIds : ToggleRead(r, "toggle-delete", u, id)
  \/ \E r \in Slots : ToggleWrite(r)
  \/ \E r \in Slots, u \in Users, id \in ReqIds : PermanentDeleteRead(r, u, id)
  \/ \E r \in Slots : PermanentDeleteWrite(r)

\* A permanent-delete request and a toggle-delete request issued at once.
SpecPurge == InitConc /\ [][NextPurge]_vars

\* ------------------------------------------------------ src/routes/tags.js
\* mongoose.Types.ObjectId.isValid(id).
isValid(id) == id # MalformedId

\* tagStringValidation on body.name: "" when the name passes, the message otherwise.
tagStringValidation(name) ==
  IF name = "" THEN "Label can't be an empty string"
  ELSE IF tagLength(trim(name)) < 1 \/ tagLength(trim(name)) > 10
  THEN "Label must be a non empty string with not more than 10 characters"
  ELSE ""

\* checkTagOwnership: the response it sends, Ok(200) when it returns true.
checkTagOwnership(tag, userId) ==
  IF ~Some(tag) THEN [status |-> 404, error |-> "Label not found"]
  ELSE IF Val(tag).user # userId THEN [status |-> 403, error |-> "Access denied"]
  ELSE Ok(200)

\* Tag.find({ user: userId, _id: { $ne: id } }): the matching documents by id.
findTags(coll, userId, id) ==
  [i \in {j \in DOMAIN coll \ {id} : coll[j].user = userId} |-> coll[i]]

\* existingTags.some(t => decrypt(t.name).toLowerCase() === tagName.toLowerCase()).
isDuplicate(existingTags, tagName) ==
  \E i \in DOMAIN existingTags :
    toLowerCase(decrypt(existingTags[i].name)) = toLowerCase(tagName)

\* The locals of a label request: tag is the document findById returned, seen the
\* documents Tag.find returned.
LabelRequest(op, userId, id, pc, name, tag, seen, status) ==
  [op |-> op, user |-> userId, id |-> id, pc |-> pc, name |-> name, note |-> tag,
   seen |-> seen, status |-> status]

\* A label request answered without a write.
LabelReject(r, op, userId, id, response) ==
  /\ Reject(op, userId, id, response)
  /\ pending' = [pending EXCEPT ![r] = LabelRequest(op, userId, id, "done", "", <<>>, <<>>,
                                                     response.status)]

\* POST /add-tag up to its await: the validation middleware, then Tag.find.
AddTagRead(r, userId, name) ==
  /\ pending[r].pc = "idle"
  /\ IF tagStringValidation(name) # ""
     THEN LabelReject(r, "add-tag", userId, MalformedId,
                      [status |-> 400, error |-> tagStringValidation(name)])
     ELSE /\ pending' = [pending EXCEPT ![r] =
                           LabelRequest("add-tag", userId, MalformedId, "read", trim(name),
                                        <<>>, findTags(tags, userId, MalformedId), 0)]
          /\ UNCHANGED <<notes, tags, nextId, now, last>>
  /\ UNCHANGED <<bodyUser, origin>>

\* POST /add-tag after Tag.find: the limit and duplicate tests on the documents
\* read, then Tag.create.
AddTagWrite(r) ==
  /\ pending[r].pc = "read"
  /\ pending[r].op = "add-tag"
  /\ LET q == pending[r]
     IN  IF Cardinality(DOMAIN q.seen) = LABEL_LIMIT
         THEN LabelReject(r, q.op, q.user, q.id,
                          [status |-> 400, error |-> "Maximum 50 labels allowed"])
         ELSE IF isDuplicate(q.seen, q.name)
         THEN LabelReject(r, q.op, q.user, q.id,
                          [status |-> 400, error |-> "Label already exists"])
         ELSE /\ tags' = [i \in DOMAIN tags \cup {nextId} |->
                           IF i = nextId THEN [user |-> q.user, name |-> encrypt(q.name)]
                           ELSE tags[i]]
              /\ nextId' = nextId + 1
              /\ Respond(q.op, q.user, nextId, Ok(201))
              /\ pending' = [pending EXCEPT ![r].pc = "done", ![r].status = 201]
              /\ UNCHANGED <<notes, now>>
  /\ UNCHANGED <<bodyUser, origin>>

\* PUT /update-tag/:id up to its first await: the validation middleware, the id
\* test, then Tag.findById.
UpdateTagRead(r, userId, id, name) ==
  /\ pending[r].pc = "idle"
  /\ IF tagStringValidation(name) # ""
     THEN LabelReject(r, "update-tag", userId, id,
                      [status |-> 400, error |-> tagStringValidation(name)])
     ELSE IF ~isValid(id)
     THEN LabelReject(r, "update-tag", userId, id,
                      [status |-> 400, error |-> "Invalid label ID format"])
     ELSE /\ pending' = [pending EXCEPT ![r] =
                           LabelRequest("update-tag", userId, id, "read", trim(name),
                                        IF id \in DOMAIN tags THEN <<tags[id]>> ELSE <<>>,
                                        <<>>, 0)]
          /\ UNCHANGED <<notes, tags, nextId, now, last>>
  /\ UNCHANGED <<bodyUser, origin>>

\* PUT /update-tag/:id from Tag.findById to its second await: checkTagOwnership,
\* the no-change test, then Tag.find of the user's other labels.
UpdateTagFind(r) ==
  /\ pending[r].pc = "read"
  /\ pending[r].op = "update-tag"
  /\ LET q == pending[r]
     IN  IF checkTagOwnership(q.note, q.user).status # 200
         THEN LabelReject(r, q.op, q.user, q.id, checkTagOwnership(q.note, q.user))
         ELSE IF decrypt(Val(q.note).name) = q.name
         THEN LabelReject(r, q.op, q.user, q.id, Ok(200))
         ELSE /\ pending' = [pending EXCEPT ![r].pc = "found",
                                            ![r].seen = findTags(tags, q.user, q.id)]
              /\ UNCHANGED <<notes, tags, nextId, now, last>>
  /\ UNCHANGED <<bodyUser, origin>>

\* PUT /update-tag/:id after Tag.find: the duplicate test on the documents read,
\* then Tag.findByIdAndUpdate; updatedTag is null when the label is gone, and
\* reading its _id throws.
UpdateTagWrite(r) ==
  /\ pending[r].pc = "found"
  /\ pending[r].op = "update-tag"
  /\ LET q == pending[r]
     IN  IF isDuplicate(q.seen, q.name)
         THEN LabelReject(r, q.op, q.user, q.id,
                          [status |-> 400, error |-> "Label already exists"])
         ELSE IF q.id \notin DOMAIN tags
         THEN LabelReject(r, q.op, q.user, q.id,
                          [status |-> 500,
                           error |-> "Failed to update label. Please try again."])
         ELSE /\ tags' = [tags EXCEPT ![q.id].name = encrypt(q.name)]
              /\ Respond(q.op, q.user, q.id, Ok(200))
              /\ pending' = [pending EXCEPT ![r].pc = "done", ![r].status = 200]
              /\ UNCHANGED <<notes, nextId, now>>
  /\ UNCHANGED <<bodyUser, origin>>

\* The labels of user u1 after n add-tag requests, no note stored.
InitLabels ==
  /\ \E n \in {0, LABEL_LIMIT - 1, LABEL_LIMIT} :
       /\ tags = [id \in (MaxNotes + 1)..(MaxNotes + n) |->
                   [user |-> "u1", name |-> encrypt(StoredName(id - MaxNotes))]]
       /\ nextId = MaxNotes + n + 1
  /\ notes = << >>
  /\ now = 0
  /\ last = [op |-> "none", user |-> "u1", id |-> MalformedId, status |-> 0, error |-> ""]
  /\ bodyUser = <<>>
  /\ pending = [r \in Slots |-> Idle]
  /\ origin = notes

NextLabels ==
  \/ \E r \in Slots, u \in Users, n \in LabelNames : AddTagRead(r, u, n)
  \/ \E r \in Slots : AddTagWrite(r)
  \/ \E r \in Slots, u \in Users, id \in LabelReqIds, n \in LabelNames :
       UpdateTagRead(r, u, id, n)
  \/ \E r \in Slots : UpdateTagFind(r)
  \/ \E r \in Slots : UpdateTagWrite(r)

\* Two add-tag or update-tag requests issued at once.
SpecLabels == InitLabels /\ [][NextLabels]_vars

\* DELETE /delete-tag/:id up to its first await: the id test, then Tag.findById.
DeleteTagRead(r, userId, id) ==
  /\ pending[r].pc = "idle"
  /\ IF ~isValid(id)
     THEN LabelReject(r, "delete-tag", userId, id,
                      [status |-> 400, error |-> "Invalid tag ID format"])
     ELSE /\ pending' = [pending EXCEPT ![r] =
                           LabelRequest("delete-tag", userId, id, "read", "",
                                        IF id \in DOMAIN tags THEN <<tags[id]>> ELSE <<>>,
                                        <<>>, 0)]
          /\ UNCHANGED <<notes, tags, nextId, now, last>>
  /\ UNCHANGED <<bodyUser, origin>>

\* DELETE /delete-tag/:id from Tag.findById to its second await: checkTagOwnership,
\* then Tag.findByIdAndDelete.
DeleteTagRemove(r) ==
  /\ pending[r].pc = "read"
  /\ pending[r].op = "delete-tag"
  /\ LET q == pending[r]
     IN  IF checkTagOwnership(q.note, q.user).status # 200
         THEN /\ Reject(q.op, q.user, q.id, checkTagOwnership(q.note, q.user))
              /\ pending' = [pending EXCEPT ![r].pc = "done",
                                            ![r].status = checkTagOwnership(q.note, q.user).status]
         ELSE /\ tags' = [i \in DOMAIN tags \ {q.id} |-> tags[i]]
              /\ pending' = [pending EXCEPT ![r].pc = "removed",
                                            ![r].name = decrypt(Val(q.note).name)]
              /\ UNCHANGED <<notes, nextId, now, last>>
  /\ UNCHANGED <<bodyUser, origin>>

\* note.tag.map(decrypt).filter(t => t !== decrypt(tag.name)).map(encrypt).
updatedTags(note, tagName) ==
  LET decrypted == [i \in 1..Len(note.tag) |-> decrypt(note.tag[i])]
      kept == SelectSeq(decrypted, LAMBDA t : t # tagName)
  IN  [i \in 1..Len(kept) |-> encrypt(kept[i])]

\* DELETE /delete-tag/:id from Tag.findByIdAndDelete to its third await: Note.find
\* of the user's notes that carry a label.
DeleteTagFind(r) ==
  /\ pending[r].pc = "removed"
  /\ pending[r].op = "delete-tag"
  /\ LET q == pending[r]
         notesWithTags == {id \in DOMAIN notes :
                            notes[id].user = q.user /\ Len(notes[id].tag) # 0}
     IN  pending' = [pending EXCEPT ![r].pc = "found",
                                    ![r].seen = [id \in notesWithTags |-> notes[id]]]
  /\ UNCHANGED <<notes, tags, nextId, now, last, bodyUser, origin>>

\* The notes read whose label array the loop of delete-tag has yet to rewrite.
toRewrite(q) ==
  {id \in DOMAIN q.seen : Len(updatedTags(q.seen[id], q.name)) # Len(q.seen[id].tag)}

\* One turn of the loop of delete-tag that writes: Note.findByIdAndUpdate of the
\* first note read that carries the label, with the array computed from that copy.
DeleteTagRewrite(r) ==
  /\ pending[r].pc = "found"
  /\ pending[r].op = "delete-tag"
  /\ toRewrite(pending[r]) # {}
  /\ LET q == pending[r]
         id == CHOOSE i \in toRewrite(q) : \A j \in toRewrite(q) : i <= j
     IN  /\ notes' = findByIdAndUpdate(id, [NoFields EXCEPT
                                               !.tag = <<updatedTags(q.seen[id], q.name)>>],
                                       FALSE, now)
         /\ pending' = [pending EXCEPT ![r].seen = [i \in DOMAIN q.seen \ {id} |-> q.seen[i]]]
  /\ UNCHANGED <<tags, nextId, now, last, bodyUser, origin>>

\* DELETE /delete-tag/:id after its loop: the response.
DeleteTagDone(r) ==
  /\ pending[r].pc = "found"
  /\ pending[r].op = "delete-tag"
  /\ toRewrite(pending[r]) = {}
  /\ Reject("delete-tag", pending[r].user, pending[r].id, Ok(200))
  /\ pending' = [pending EXCEPT ![r].pc = "done", ![r].status = 200]
  /\ UNCHANGED <<bodyUser, origin>>

\* PUT /change-tags/:id up to the end of its middleware: tagArrayValidation, whose
\* Tag.find reads the user's labels.
ChangeTagsValidate(r, userId, id, body) ==
  /\ pending[r].pc = "idle"
  /\ IF tagArrayValidation(body, userId) # ""
     THEN LabelReject(r, "change-tags", userId, id,
                      [status |-> 400, error |-> tagArrayValidation(body, userId)])
     ELSE /\ pending' = [pending EXCEPT ![r] =
                           LabelRequest("change-tags", userId, id, "valid", "", <<>>,
                                        body.tag, 0)]
          /\ UNCHANGED <<notes, tags, nextId, now, last>>
  /\ UNCHANGED <<bodyUser, origin>>

\* PUT /change-tags/:id from its middleware to the await of its handler:
\* validateObjectId, then Note.findById.
ChangeTagsRead(r) ==
  /\ pending[r].pc = "valid"
  /\ pending[r].op = "change-tags"
  /\ LET q == pending[r]
         default == "Failed to change note tags. Please try again"
     IN  IF validateObjectId(q.id) # ""
         THEN /\ Reject(q.op, q.user, q.id, handleError(validateObjectId(q.id), default))
              /\ pending' = [pending EXCEPT ![r].pc = "done", ![r].status = 400]
         ELSE /\ pending' = [pending EXCEPT ![r].pc = "read", ![r].note = findById(q.id)]
              /\ UNCHANGED <<notes, tags, nextId, now, last>>
  /\ UNCHANGED <<bodyUser, origin>>

\* PUT /change-tags/:id after Note.findById: checkNoteOwnership, the labels of the
\* body encrypted, Note.findByIdAndUpdate.  q.seen is the tag field of the body.
ChangeTagsWrite(r) ==
  /\ pending[r].pc = "read"
  /\ pending[r].op = "change-tags"
  /\ LET q == pending[r]
         default == "Failed to change note tags. Please try again"
         message == IF checkNoteOwnership(q.note, q.user) # ""
                    THEN checkNoteOwnership(q.note, q.user)
                    ELSE IF ~Some(q.seen) THEN TypeErrorText
                    ELSE ""
     IN  IF message # ""
         THEN /\ Reject(q.op, q.user, q.id, handleError(message, default))
              /\ pending' = [pending EXCEPT ![r].pc = "done",
                                            ![r].status = handleError(message, default).status]
         ELSE /\ Write(q.op, q.user, q.id,
                       [NoFields EXCEPT !.tag = << [i \in 1..Len(Val(q.seen)) |->
                                                     encrypt(Val(q.seen)[i])] >>],
                       FALSE)
              /\ pending' = [pending EXCEPT ![r].pc = "done", ![r].status = 200]
  /\ UNCHANGED <<bodyUser, origin>>

\* User u1 after add-tag of the label "t" and add-note or change-tags requests:
\* one regular note per ObjectId, each carrying the label or no label.
InitRemoval ==
  /\ \E carried \in [ObjectIds -> TagArrays] :
       notes = [id \in ObjectIds |->
                 createDoc("u1",
                           [NoFields EXCEPT
                              !.title = <<encrypt("a")>>,
                              !.content = <<encrypt("c")>>,
                              !.tag = << [i \in 1..Len(carried[id]) |->
                                           encrypt(carried[id][i])] >>],
                           id - MaxNotes)]
  /\ tags = [id \in {MaxNotes + 1} |-> [user |-> "u1", name |-> encrypt("t")]]
  /\ nextId = MaxNotes + 2
  /\ now = 0
  /\ last = [op |-> "add-tag", user |-> "u1", id |-> MaxNotes + 1, status |-> 201,
             error |-> ""]
  /\ bodyUser = <<>>
  /\ pending = [r \in Slots |-> Idle]
  /\ origin = notes

NextRemoval ==
  \/ \E r \in Slots, u \in Users, id \in LabelReqIds : DeleteTagRead(r, u, id)
  \/ \E r \in Slots : DeleteTagRemove(r)
  \/ \E r \in Slots : DeleteTagFind(r)
  \/ \E r \in Slots : DeleteTagRewrite(r)
  \/ \E r \in Slots : DeleteTagDone(r)
  \/ \E r \in Slots, u \in Users, id \in ReqIds, b \in TagBodies :
       ChangeTagsValidate(r, u, id, b)
  \/ \E r \in Slots : ChangeTagsRead(r)
  \/ \E r \in Slots : ChangeTagsWrite(r)

\* A delete-tag request and a change-tags request issued at once.
SpecRemoval == InitRemoval /\ [][NextRemoval]_vars

\* ------------------------------------------------------------------ claims
\* The filters of fetch-notes: "" is the regular category.
Categories == {"", "pinned", "archived", "deleted"}

\* The ids of the notes of one (user, category) partition of a Note collection.
Partition(coll, userId, filter) ==
  {id \in DOMAIN coll : buildCategoryFilter(coll[id], filter, userId)}

\* The partition's ranks are exactly 0..n-1, each held by one note.
Dense(coll, userId, filter) ==
  LET P == Partition(coll, userId, filter)
  IN  /\ \A id \in P : \E k \in 0..(Cardinality(P) - 1) : get(coll[id], "order") = <<k>>
      /\ \A k \in 0..(Cardinality(P) - 1) :
           Cardinality({id \in P : get(coll[id], "order") = <<k>>}) = 1

\* The three category flags of a note.
Flags(note) == <<note.isPinned, note.isArchived, note.isDeleted>>
Regular == <<FALSE, FALSE, FALSE>>
PinnedOnly == <<TRUE, FALSE, FALSE>>
ArchivedOnly == <<FALSE, TRUE, FALSE>>
DeletedOnly == <<FALSE, FALSE, TRUE>>

\* C1 (rank density): in every reachable state, for every user and every category,
\* the ranks of the n notes of that partition are exactly 0..n-1, without gap or
\* duplicate.
C1_RankDensity == \A u \in Users, c \in Categories : Dense(notes, u, c)

\* C2 (category exclusivity): in every reachable state no stored note has more than
\* one of isPinned, isArchived, isDeleted true.
C2_Exclusivity ==
  \A id \in DOMAIN notes :
    Cardinality({i \in 1..3 : Flags(notes[id])[i]}) <= 1

\* The request served by the step was op, and it was answered with a write (200).
Served(op) == last'.op = op /\ last'.status = 200

\* C3 (transition rank effect): when a toggle moves a note to another partition, the
\* note ends at rank 0 there, every note already in the destination has its rank
\* raised by exactly 1, and every note of the source above the moved note's old rank
\* has its rank lowered by exactly 1.
C3_TransitionRankEffect ==
  [][LET id == last'.id IN
     ((Served("toggle-pin") \/ Served("toggle-archive") \/ Served("toggle-delete"))
        /\ Flags(notes'[id]) # Flags(notes[id])) =>
         /\ get(notes'[id], "order") = <<0>>
         /\ \A j \in DOMAIN notes \ {id} :
              LET old == get(notes[j], "order")
                  new == get(notes'[j], "order")
                  was == get(notes[id], "order")
              IN  /\ (notes[j].user = notes[id].user /\ Flags(notes[j]) = Flags(notes'[id]))
                       => (Some(old) /\ Some(new) /\ Val(new) = Val(old) + 1)
                  /\ (notes[j].user = notes[id].user /\ Flags(notes[j]) = Flags(notes[id])
                        /\ Some(old) /\ Some(was) /\ Val(old) > Val(was))
                       => (Some(new) /\ Val(new) = Val(old) - 1)]_vars

\* C4 (archive toggle policy): toggle-archive on a note that is not archived leaves
\* it archived only; toggle-archive on an archived note leaves it regular.
C4_ArchivePolicy ==
  [][LET id == last'.id IN
     Served("toggle-archive") =>
       IF notes[id].isArchived
       THEN Flags(notes'[id]) = Regular
       ELSE Flags(notes'[id]) = ArchivedOnly]_vars

\* C5 (pin toggle policy): toggle-pin on a regular note leaves it pinned only;
\* toggle-pin on a pinned note leaves it regular; no toggle-pin leaves a note with
\* isPinned true together with isArchived or isDeleted.
C5_PinPolicy ==
  [][LET id == last'.id IN
     Served("toggle-pin") =>
       /\ Flags(notes[id]) = Regular => Flags(notes'[id]) = PinnedOnly
       /\ notes[id].isPinned => Flags(notes'[id]) = Regular
       /\ notes'[id].isPinned => ~notes'[id].isArchived /\ ~notes'[id].isDeleted]_vars

\* C6 (delete toggle policy): toggle-delete on a note that is not soft-deleted
\* leaves it deleted only; toggle-delete on a soft-deleted note leaves it regular.
C6_DeletePolicy ==
  [][LET id == last'.id IN
     Served("toggle-delete") =>
       IF notes[id].isDeleted
       THEN Flags(notes'[id]) = Regular
       ELSE Flags(notes'[id]) = DeletedOnly]_vars

\* Every stored field of note j but its rank is the same before and after the step.
SameButRank(j) ==
  /\ j \in DOMAIN notes'
  /\ \A f \in DOMAIN notes[j] \ {"order"} : notes'[j][f] = notes[j][f]

\* C7 (permanent-delete precondition): permanent-delete on an owned note that is not
\* soft-deleted answers the precondition error and changes no note; on an owned
\* soft-deleted note it removes exactly that record and closes the gap it leaves in
\* the owner's deleted partition.
C7_PermanentDelete ==
  [][LET id == last'.id IN
     (last'.op = "permanent-delete" /\ id \in DOMAIN notes /\ notes[id].user = last'.user) =>
       IF ~notes[id].isDeleted
       THEN /\ last'.status = 400
            /\ last'.error = "Note must be moved to bin before permanent deletion"
            /\ notes' = notes
       ELSE /\ last'.status = 200
            /\ DOMAIN notes' = DOMAIN notes \ {id}
            /\ \A j \in DOMAIN notes \ {id} : SameButRank(j)
            /\ Dense(notes', notes[id].user, "deleted")]_vars

\* The operations on one note that change it.
NoteMutations ==
  {"update-note", "toggle-pin", "toggle-archive", "toggle-delete", "permanent-delete",
   "change-colour", "change-tags"}

\* The error the identifier and ownership checks owe a request: [status, error],
\* status 0 when the id names a note of the requesting user.
IdError(userId, id) ==
  IF id = MalformedId THEN [status |-> 400, error |-> "Invalid note ID format"]
  ELSE IF id \notin DOMAIN notes THEN [status |-> 404, error |-> "Note not found"]
  ELSE IF notes[id].user # userId THEN [status |-> 403, error |-> "Access denied"]
  ELSE [status |-> 0, error |-> ""]

\* The step answered with the error of a body validator (express-validator's 400).
ValidationRejected ==
  /\ last'.status = 400
  /\ last'.error \in {ColourErrorText, "Maximum 50 tags allowed",
                      "Each lebel must be a non-empty string with maximum 10 characters",
                      "Label should be added first before use"}

\* C8 as stated (ownership and identifier checks): for every note-mutating operation
\* a malformed id yields InvalidIdentifier, an id with no record NotFound, a record
\* of another user AccessDenied, and in all three cases the store is unchanged.
C8_IdChecksAlways ==
  [][(last'.op \in NoteMutations /\ IdError(last'.user, last'.id).status # 0) =>
       /\ last'.status = IdError(last'.user, last'.id).status
       /\ last'.error = IdError(last'.user, last'.id).error
       /\ notes' = notes /\ tags' = tags]_vars

\* C8 as amended: the same, for every request the route's body validator
\* (colourValidation on update-note and change-colour, tagArrayValidation on
\* change-tags) does not reject first; a request it rejects gets the validation
\* error whatever its id.  In every one of these cases the store is unchanged.
C8_IdChecks ==
  [][(last'.op \in NoteMutations /\ IdError(last'.user, last'.id).status # 0) =>
       /\ \/ ValidationRejected /\ last'.op \in {"update-note", "change-colour", "change-tags"}
          \/ /\ last'.status = IdError(last'.user, last'.id).status
             /\ last'.error = IdError(last'.user, last'.id).error
       /\ notes' = notes /\ tags' = tags]_vars

\* A request on another user's note was answered AccessDenied, with a note stored.
C8_Witness ==
  /\ last.op = "toggle-delete"
  /\ last.error = "Access denied"
  /\ last.id \in DOMAIN notes
  /\ notes[last.id].user # last.user

\* C10 (update timestamp rule): update-note changes the note's modification
\* timestamp if and only if it changes the stored value of title, content or a
\* category flag; its rank is unchanged.
C10_UpdateTimestamp ==
  [][LET id == last'.id IN
     Served("update-note") =>
       /\ (notes'[id].updatedAt # notes[id].updatedAt)
            <=> (\/ notes'[id].title # notes[id].title
                 \/ notes'[id].content # notes[id].content
                 \/ Flags(notes'[id]) # Flags(notes[id]))
       /\ get(notes'[id], "order") = get(notes[id], "order")]_vars

\* C11 (colour change is cosmetic): change-colour with the note's current colour
\* leaves the note identical; change-colour with a different allowed colour leaves
\* the note with that colour and with its modification timestamp, category flags,
\* rank, text and labels unchanged.
C11_ColourCosmetic ==
  [][\A b \in ColourBodies :
       LET id == last'.id IN
       (ChangeColour(last'.user, id, b) /\ Served("change-colour")) =>
         /\ get(notes[id], "colour") = b.colour => notes'[id] = notes[id]
         /\ get(notes'[id], "colour") = b.colour
         /\ \A f \in DOMAIN notes[id] \ {"colour"} : notes'[id][f] = notes[id][f]]_vars

\* The ids a batch names.
Named(orderedIds) == {orderedIds[i] : i \in 1..Len(orderedIds)}

\* Every stored note has the rank it had before the step.
RanksUnchanged ==
  /\ DOMAIN notes' = DOMAIN notes
  /\ \A j \in DOMAIN notes : get(notes'[j], "order") = get(notes[j], "order")

\* C12 (reorder totality): reorder(user, category, orderedIds) with orderedIds a
\* permutation of exactly the ids of that partition sets each note's rank to its
\* index in orderedIds; a batch that omits a member or names an id outside the
\* partition is rejected and leaves every rank unchanged.
C12_ReorderTotality ==
  [][\A c \in ReorderCategories \ {"deleted"}, ids \in OrderedIds :
       (Reorder(last'.user, c, ids) /\ last'.op = "reorder") =>
         IF Named(ids) = Partition(notes, last'.user, c)
         THEN \A i \in 1..Len(ids) : get(notes'[ids[i]], "order") = <<i - 1>>
         ELSE last'.status # 200 /\ RanksUnchanged]_vars

\* a is listed before b in the listing s.
Before(s, a, b) ==
  \E i, j \in 1..Len(s) : i < j /\ s[i] = a /\ s[j] = b

\* C13 (no reordering of the bin): a reorder request whose category is deleted is
\* rejected and writes nothing; and no request but a permanent deletion changes
\* the relative order, in the bin, of two notes that are soft-deleted before and
\* after it.
C13_NoBinReorder ==
  [][/\ \A ids \in OrderedIds :
          (Reorder(last'.user, "deleted", ids) /\ last'.op = "reorder") =>
            last'.status # 200 /\ notes' = notes
     /\ last'.op # "permanent-delete" =>
          \A u \in Users :
            \A a, b \in Partition(notes, u, "deleted") \cap Partition(notes', u, "deleted") :
              Before(find(notes, u, "deleted"), a, b) <=> Before(find(notes', u, "deleted"), a, b)]_vars

\* The category flags of every note of a collection.
FlagsOf(coll) == [id \in DOMAIN coll |-> Flags(coll[id])]

\* The collection after the toggle request q is served alone on coll.
SerialToggle(coll, q) ==
  IF validateObjectId(q.id) # "" \/ q.id \notin DOMAIN coll \/ coll[q.id].user # q.user
  THEN coll
  ELSE [coll EXCEPT ![q.id] = applySet(coll[q.id], toggleUpdates(q.op, coll[q.id]), FALSE, 0)]

\* The flags the store may hold after the two requests in flight are served one
\* after the other, in either order, from the store they were issued against.
SerialOutcomes ==
  {FlagsOf(SerialToggle(SerialToggle(origin, pending[a]), pending[b])) :
     <<a, b>> \in {<<1, 2>>, <<2, 1>>}}

\* Both requests in flight have been answered, and none with an error.
BothServed == \A r \in Slots : pending[r].pc = "done" /\ pending[r].status = 200

\* C14 (serialization of concurrent transitions): for two toggle requests issued at
\* once, either one is answered with an error or the stored flags at the end are
\* those of running the two one after the other in some order; and no request
\* writes from a note that has changed since the request read it.
C14_Serializable ==
  [][/\ \A r \in Slots :
          (pending[r].pc = "read" /\ pending'[r].status = 200) =>
            pending[r].note = findById(pending[r].id)
     /\ BothServed' => (FlagsOf(notes) \in SerialOutcomes)']_vars

\* The body sets more than one of the three category flags.
MultiFlag(b) ==
  Cardinality({f \in {"isPinned", "isArchived", "isDeleted"} : b[f] = <<TRUE>>}) > 1

\* C15 (category-flag validation): add-note and update-note reject every payload in
\* which more than one of isPinned, isArchived, isDeleted is true, and after such a
\* request no note has been created or modified.
C15_FlagValidation ==
  [][/\ \A b \in AddBodies :
          (MultiFlag(b) /\ last'.op = "add-note" /\ AddNote(last'.user, b)) =>
            last'.status = 400 /\ notes' = notes
     /\ \A b \in UpdateBodies :
          (MultiFlag(b) /\ last'.op = "update-note" /\ UpdateNote(last'.user, last'.id, b)) =>
            last'.status # 200 /\ notes' = notes]_vars

\* The "please try again" message each operation passes to handleError.
GenericMessage(op) ==
  IF op = "fetch-notes" THEN "Failed to fetch notes. Please reload the page"
  ELSE IF op = "add-note" THEN "Failed to add note. Please try again"
  ELSE IF op = "update-note" THEN "Failed to update note. Please try again"
  ELSE IF op = "permanent-delete" THEN "Failed to permanently delete note. Please try again"
  ELSE IF op = "change-colour" THEN "Failed to change note colour. Please try again"
  ELSE IF op = "change-tags" THEN "Failed to change note tags. Please try again"
  ELSE toggleDefault(op)

\* C16 (generic storage errors): whenever a note operation fails with an internal
\* or storage failure (it is answered 500), the message returned is that
\* operation's generic "please try again" message.
C16_GenericErrors ==
  [][last'.status = 500 => last'.error = GenericMessage(last'.op)]_vars

\* C17 (creation placement): add-note stores the new note at rank 0 of the
\* partition its flags put it in, and raises by 1 the rank of every note the same
\* user already had in that partition.
C17_CreationPlacement ==
  [][LET id == last'.id IN
     (last'.op = "add-note" /\ id \in DOMAIN notes' \ DOMAIN notes) =>
       /\ get(notes'[id], "order") = <<0>>
       /\ \A j \in DOMAIN notes :
            (notes[j].user = notes'[id].user /\ Flags(notes[j]) = Flags(notes'[id])) =>
              /\ Some(get(notes[j], "order"))
              /\ get(notes'[j], "order") = <<Val(get(notes[j], "order")) + 1>>]_vars

\* C18 (ownership is immutable): no request changes the owner of a stored note, and
\* a note that appears is owned by the user whose add-note request created it; so
\* every note's owner is at all times the user that created it.
C18_OwnershipImmutable ==
  [][/\ \A id \in DOMAIN notes \cap DOMAIN notes' : notes'[id].user = notes[id].user
     /\ \A id \in DOMAIN notes' \ DOMAIN notes :
          last'.op = "add-note" /\ notes'[id].user = last'.user]_vars

\* An update-note whose body names another user as user was served on a note, and
\* the note is still its requester's.
C18_Witness ==
  /\ last.op = "update-note"
  /\ last.status = 200
  /\ Some(bodyUser)
  /\ Val(bodyUser) # last.user
  /\ last.id \in DOMAIN notes
  /\ notes[last.id].user = last.user


\* The rank $inc and a $dec-like operator start from: 0 for a note without one.
RankOf(note) == IF Some(get(note, "order")) THEN Val(get(note, "order")) ELSE 0

\* C19 (rank-shift primitives): reorderPreviousCategoryNotes lowers by exactly 1 the
\* rank of every note that matches the category filter and has a rank greater than
\* the vacated one; reorderNewCategoryNotes raises by exactly 1 the rank of every
\* note that matches the filter; both leave every other note, and the
\* modification timestamp of every note, unchanged.
C19_RankShift ==
  [][/\ \A f \in allowedFilters, k \in Ranks :
          (last'.op = "reorderPreviousCategoryNotes" /\ ReorderPrevious(last'.user, f, k)) =>
            /\ DOMAIN notes' = DOMAIN notes
            /\ \A id \in DOMAIN notes :
                 IF /\ buildCategoryFilter(notes[id], f, last'.user)
                    /\ Some(get(notes[id], "order"))
                    /\ RankOf(notes[id]) > k
                 THEN /\ get(notes'[id], "order") = <<RankOf(notes[id]) - 1>>
                      /\ notes'[id].updatedAt = notes[id].updatedAt
                 ELSE notes'[id] = notes[id]
     /\ \A f \in allowedFilters :
          (last'.op = "reorderNewCategoryNotes" /\ ReorderNew(last'.user, f)) =>
            /\ DOMAIN notes' = DOMAIN notes
            /\ \A id \in DOMAIN notes :
                 IF buildCategoryFilter(notes[id], f, last'.user)
                 THEN /\ get(notes'[id], "order") = <<RankOf(notes[id]) + 1>>
                      /\ notes'[id].updatedAt = notes[id].updatedAt
                 ELSE notes'[id] = notes[id]]_vars

\* The listing s is in rank order: every note of it has a rank, and the ranks grow
\* along it.
RankAscending(coll, s) ==
  \A i, j \in 1..Len(s) :
    i < j => /\ Some(get(coll[s[i]], "order"))
             /\ Some(get(coll[s[j]], "order"))
             /\ Val(get(coll[s[i]], "order")) < Val(get(coll[s[j]], "order"))

\* C20 (fetch order): fetch-notes for a category returns that partition's notes
\* sorted by rank ascending.
C20_FetchOrder ==
  [][\A f \in allowedFilters :
       (last'.op = "fetch-notes" /\ last'.status = 200 /\ FetchNotes(last'.user, f, FALSE)) =>
         RankAscending(notes, find(notes, last'.user, f))]_vars

\* C21 (permanent delete under concurrency): in every interleaving of a
\* permanent-delete request with a toggle-delete request, a note record is never
\* removed at a moment when its stored isDeleted flag is false.
C21_NoLiveRemoval ==
  [][\A id \in DOMAIN notes \ DOMAIN notes' : notes[id].isDeleted]_vars

\* The ids a result lists.
Listed(result) == {result[i] : i \in 1..Len(result)}

\* C22 (category fetches partition a user's notes): in every reachable state each
\* note a user owns is returned by exactly one of the four fetch-notes filters, and
\* no fetch-notes, search or search-by-tag result lists a note of another user.
C22_FetchPartition ==
  \A u \in Users :
    /\ \A id \in DOMAIN notes :
         notes[id].user = u =>
           Cardinality({f \in allowedFilters : id \in Listed(find(notes, u, f))}) = 1
    /\ \A f \in allowedFilters : \A id \in Listed(find(notes, u, f)) : notes[id].user = u
    /\ \A t \in SearchTexts : \A id \in Listed(search(notes, u, t)) : notes[id].user = u
    /\ \A t \in SearchTags :
         \A id \in Listed(searchByTag(notes, u, t)) : notes[id].user = u

\* The ids of the labels of a user.
LabelsOf(userId) == {i \in DOMAIN tags : tags[i].user = userId}

\* C23 (label uniqueness and cap): after any add-tag and update-tag requests of a
\* user, concurrent ones included, the user has no two labels whose names are
\* equal ignoring case and has at most 50 labels.
C23_LabelUniquenessAndCap ==
  \A u \in Users :
    /\ \A i, j \in LabelsOf(u) :
         i # j => toLowerCase(decrypt(tags[i].name)) # toLowerCase(decrypt(tags[j].name))
    /\ Cardinality(LabelsOf(u)) <= LABEL_LIMIT

\* The delete-tag request of slot r has been answered 200.
Removed(r) ==
  pending[r].op = "delete-tag" /\ pending[r].pc = "done" /\ pending[r].status = 200

\* C24 (label removal is complete): once a delete-tag request has completed, no note
\* of that user carries the label it removed, whatever change-tags requests of the
\* user it was interleaved with.
C24_RemovalComplete ==
  \A r \in Slots :
    Removed(r) =>
      \A id \in DOMAIN notes :
        notes[id].user = pending[r].user =>
          \A i \in 1..Len(notes[id].tag) : decrypt(notes[id].tag[i]) # pending[r].name

====
